---- MODULE Spec2Model ----
(***************************************************************************)
(* A model of nikolat/sirefaso: the GitHub search crawler of update.py     *)
(* (GitHubApiCrawler / GitHubDauCrawler) and the shared base class of      *)
(* crawler.py.  One run is  GitHubDauCrawler().search().crawl().export().  *)
(*                                                                         *)
(* Strings that the code takes apart are sequences of tokens: a topic is   *)
(* a sequence over {"ukagaka-", "ghost", ...}, a full_name a sequence over *)
(* owner, "/" and repository name, a URL a sequence of header pieces.      *)
(* Strings the code only copies are TLA+ strings.  The entry fields        *)
(* classname, created_at_str, updated_at_str and updated_at_rss2           *)
(* (update.py 182-194, 203-206) depend on the wall clock and on no other   *)
(* state; they are left out of the entry record.                           *)
(***************************************************************************)
EXTENDS Integers, Sequences, FiniteSets, TLC

VARIABLES
    pc,          \* position of the main flow (update.py 218-220)
    rq,          \* the frame of _request_with_retry in progress
    responses,   \* search: responses / self._responses
    sent,        \* history: every call of _request_with_retry of this run
    err,         \* history: the exception that left _request_with_retry
    anyFail,     \* history: some GET of this run returned a failure status
    pi,          \* crawl: index of the response being read (outer for)
    ii,          \* crawl: index of the item being read (inner for)
    entries,     \* crawl: entries / self._entries
    categories,  \* crawl: categories / self._categories
    authors,     \* crawl: authors / self._authors
    ci,          \* export: index into categories, then into authors
    dirs,        \* the directories below docs/
    files,       \* the files below docs/
    touched,     \* history: this run wrote to or removed something in docs/
    catalog      \* the repositories the search API may return

vars == <<pc, rq, responses, sent, err, anyFail, pi, ii, entries, categories,
          authors, ci, dirs, files, touched, catalog>>

----------------------------------------------------------------------------
(* Bounds *)

MaxPages == 3
MaxItems == 2

----------------------------------------------------------------------------
(* Configuration and the platform's data *)

PREFIX == "ukagaka-"

DENIED_CATEGORIES == {<<"media">>, <<"author">>}

DefaultWait == 180

\* The values a failed response's Retry-After header may have: absent, a
\* number of seconds, or an HTTP date (which int() does not parse).
RetryAfterHeaders ==
    { [kind |-> "absent", secs |-> 0],
      [kind |-> "secs",   secs |-> 0],
      [kind |-> "secs",   secs |-> 60],
      [kind |-> "date",   secs |-> 0] }

NoHeader == [kind |-> "absent", secs |-> 0]

\* config['redirect']: full_name -> full_name
Redirect ==
    (<<"a", "/", "x">> :> <<"n", "/", "x">>) @@
    (<<"a", "/", "z">> :> <<"n", "/", "z">>)

\* What GET /repos/<full_name> answers for the redirect targets.
RepoData ==
    (<<"n", "/", "x">> :> [created_at |-> "2001", pushed_at |-> "2009"]) @@
    (<<"n", "/", "z">> :> [created_at |-> "2002", pushed_at |-> "2008"])

\* The raw search items (response.json()['items'] elements).
RawItem ==
    ("r1" :> [full_name |-> <<"a", "/", "x">>, name |-> "x", login |-> "a",
              topics |-> << <<PREFIX, "ghost">> >>,
              created_at |-> "2011", pushed_at |-> "2019",
              html_url |-> "https://github.com/a/x"]) @@
    ("r2" :> [full_name |-> <<"b", "/", "y">>, name |-> "y", login |-> "b",
              topics |-> << <<"nar">>, <<PREFIX, "media">>, <<PREFIX, "ghost">> >>,
              created_at |-> "2012", pushed_at |-> "2018",
              html_url |-> "https://github.com/b/y"]) @@
    ("r3" :> [full_name |-> <<"a", "/", "z">>, name |-> "z", login |-> "a",
              topics |-> << <<"nar">> >>,
              created_at |-> "2013", pushed_at |-> "2017",
              html_url |-> "https://github.com/a/z"]) @@
    ("r4" :> [full_name |-> <<"c", "/", "w">>, name |-> "w", login |-> "c",
              topics |-> << <<PREFIX, "author">>, <<PREFIX, "media">> >>,
              created_at |-> "2014", pushed_at |-> "2016",
              html_url |-> "https://github.com/c/w"]) @@
    ("r5" :> [full_name |-> <<"b", "/", "v">>, name |-> "v", login |-> "b",
              topics |-> << <<PREFIX>> >>,
              created_at |-> "2015", pushed_at |-> "2015",
              html_url |-> "https://github.com/b/v"]) @@
    ("r6" :> [full_name |-> <<"c", "/", "u">>, name |-> "u", login |-> "c",
              topics |-> << <<"my-", PREFIX, "ghost">> >>,
              created_at |-> "2010", pushed_at |-> "2020",
              html_url |-> "https://github.com/c/u"])

Universe == DOMAIN RawItem

\* The catalogue of the specification of repeated runs.
SmallCatalog == {"r1", "r2", "r3"}

----------------------------------------------------------------------------
(* URLs and the link header *)

\* A piece of header or URL text.  t = "search": the search endpoint;
\* t = "page": the URL of result page `page`; t = "repos": the URL of
\* repository `name`; t = "sep": the text  >; rel="<rel>", <  that stands
\* between two URLs of a link header.
Piece(t, page, rel, name) == [t |-> t, page |-> page, rel |-> rel, name |-> name]

SearchUrl == << Piece("search", 0, "", <<>>) >>
PageUrl(p) == << Piece("page", p, "", <<>>) >>
RepoUrl(fn) == << Piece("repos", 0, "", fn) >>

\* payload of the first search request; None otherwise
SearchPayload == [q |-> "search_query", sort |-> "updated"]
None == [q |-> "", sort |-> ""]

\* A link header is a sequence of [url, rel]:  <url>; rel="rel", <url>; ...
Link(p, rel) == [url |-> PageUrl(p), rel |-> rel]

\* The header of page p: prev (p > 1) and next (hasNext), in either order.
LinkHeader(p, hasNext, prevFirst) ==
    LET prev == IF p > 1 THEN << Link(p - 1, "prev") >> ELSE <<>>
        next == IF hasNext THEN << Link(p + 1, "next") >> ELSE <<>>
    IN  IF prevFirst THEN prev \o next ELSE next \o prev

\* The URL the header advertises as rel="next" (<<>> when it has none).
AdvertisedNext(link) ==
    IF \E k \in 1..Len(link) : link[k].rel = "next"
    THEN link[CHOOSE k \in 1..Len(link) : link[k].rel = "next"].url
    ELSE <<>>

RECURSIVE HeaderText(_, _)
\* The text of the header from the first URL up to and including the URL of
\* link m, as pieces: url1, sep(rel1), url2, ..., url_m.
HeaderText(link, m) ==
    IF m = 1 THEN link[1].url
    ELSE HeaderText(link, m - 1)
         \o << Piece("sep", 0, link[m - 1].rel, <<>>) >> \o link[m].url

\* re.compile(r'<(.+?)>; rel="next"').search(header): the match starts at
\* the leftmost "<" from which it can succeed, which is the first one, since
\* "." also matches ">", ";" and "<"; the lazy group then ends before the
\* first  >; rel="next".  <<>> stands for None (no match, or no header).
NextMatch(link) ==
    IF \E k \in 1..Len(link) : link[k].rel = "next"
    THEN HeaderText(link, CHOOSE k \in 1..Len(link) :
                              /\ link[k].rel = "next"
                              /\ \A j \in 1..(k - 1) : link[j].rel # "next")
    ELSE <<>>

\* The page a URL asks the search API for.  A URL that is not one the API
\* advertised is read by its last piece.
PageOf(url) ==
    IF url = SearchUrl THEN 1 ELSE url[Len(url)].page

IsRepoUrl(url) == Len(url) = 1 /\ url[1].t = "repos"

----------------------------------------------------------------------------
(* Responses *)

FailResponse(ra) ==
    [ok |-> FALSE, ra |-> ra, link |-> <<>>, items |-> <<>>, page |-> 0,
     created_at |-> "", pushed_at |-> ""]

PageResponse(p, items, link) ==
    [ok |-> TRUE, ra |-> NoHeader, link |-> link, items |-> items, page |-> p,
     created_at |-> "", pushed_at |-> ""]

RepoResponse(fn) ==
    [ok |-> TRUE, ra |-> NoHeader, link |-> <<>>, items |-> <<>>, page |-> 0,
     created_at |-> RepoData[fn].created_at, pushed_at |-> RepoData[fn].pushed_at]

NoResponse == FailResponse(NoHeader)

\* Sequences of at most n distinct elements of S.
RECURSIVE DistinctSeqs(_, _)
DistinctSeqs(S, n) ==
    IF n <= 0 THEN { <<>> }
    ELSE LET shorter == DistinctSeqs(S, n - 1)
         IN  shorter \cup
             UNION { { Append(s, x) : x \in S \ { s[k] : k \in 1..Len(s) } } :
                     s \in { t \in shorter : Len(t) = n - 1 } }

RECURSIVE ItemCount(_)
ItemCount(rs) ==
    IF rs = <<>> THEN 0 ELSE Len(Head(rs).items) + ItemCount(Tail(rs))

\* The successful answers the platform may give to a GET of url.
OkResponses(url) ==
    IF IsRepoUrl(url)
    THEN { RepoResponse(url[1].name) }
    ELSE LET p == PageOf(url)
         IN  { PageResponse(p, items, LinkHeader(p, hasNext, prevFirst)) :
                 items \in DistinctSeqs(catalog, MaxItems - ItemCount(responses)),
                 hasNext \in { b \in BOOLEAN : b => p < MaxPages },
                 prevFirst \in BOOLEAN }

----------------------------------------------------------------------------
(* _request_with_retry (update.py 36-65, crawler.py 37-67) *)

\* The events of one call, in order: every requests.get with its response's
\* status and Retry-After header, every time.sleep with its duration.
GetEvent(r) == [e |-> "get", ok |-> r.ok, ra |-> r.ra, w |-> 0]
SleepEvent(w) == [e |-> "sleep", ok |-> FALSE, ra |-> NoHeader, w |-> w]

Idle ==
    [st |-> "idle", url |-> <<>>, payload |-> None, retry |-> TRUE,
     resp |-> NoResponse, ev |-> <<>>]

\* The frame on entry: the first requests.get is next.
Call(url, payload, retry) ==
    [st |-> "get1", url |-> url, payload |-> payload, retry |-> retry,
     resp |-> NoResponse, ev |-> <<>>]

\* (a variant that ignores the header)
WaitSecondsDefaultOnly(ra) == DefaultWait

\* wait = int(response.headers['Retry-After']) if the header is there, else 180
WaitSeconds(ra) ==
    IF ra.kind # "absent" THEN ra.secs ELSE DefaultWait

\* Where the frame stands once the first response is in.
AfterFirst(f, r) ==
    LET g == [f EXCEPT !.resp = r, !.ev = Append(@, GetEvent(r))]
    IN  IF r.ok THEN [g EXCEPT !.st = "ret"]
        ELSE IF ~f.retry THEN [g EXCEPT !.st = "ret"]
        ELSE IF r.ra.kind = "date" THEN [g EXCEPT !.st = "raise"]
        ELSE [g EXCEPT !.st = "sleep"]

\* Where the frame stands once the second response is in.
AfterSecond(f, r) ==
    [f EXCEPT !.resp = r, !.ev = Append(@, GetEvent(r)),
              !.st = IF r.ok THEN "ret" ELSE "raise"]

\* What a GET of url may answer.
Answers(url) ==
    OkResponses(url) \cup { FailResponse(ra) : ra \in RetryAfterHeaders }

\* response = requests.get(...); raise_for_status(); the except branch up to
\* the computation of wait.
Get1 ==
    /\ rq.st = "get1"
    /\ \E r \in Answers(rq.url) :
         /\ rq' = AfterFirst(rq, r)
         /\ anyFail' = (anyFail \/ ~r.ok)
         /\ err' = IF AfterFirst(rq, r).st = "raise" THEN "ValueError" ELSE err
    /\ UNCHANGED <<pc, responses, sent, pi, ii, entries, categories, authors,
                   ci, dirs, files, touched, catalog>>

\* time.sleep(wait)
Sleep ==
    /\ rq.st = "sleep"
    /\ rq' = [rq EXCEPT !.st = "get2",
                        !.ev = Append(@, SleepEvent(WaitSeconds(rq.resp.ra)))]
    /\ UNCHANGED <<pc, responses, sent, err, anyFail, pi, ii, entries,
                   categories, authors, ci, dirs, files, touched, catalog>>

\* the second requests.get; raise_for_status(); raise
Get2 ==
    /\ rq.st = "get2"
    /\ \E r \in Answers(rq.url) :
         /\ rq' = AfterSecond(rq, r)
         /\ anyFail' = (anyFail \/ ~r.ok)
         /\ err' = IF r.ok THEN err ELSE "HTTPError"
    /\ UNCHANGED <<pc, responses, sent, pi, ii, entries, categories, authors,
                   ci, dirs, files, touched, catalog>>

\* (a variant in which the main block catches the exception and goes on)
UncaughtSwallowed == "export"

\* Where an exception that leaves _request_with_retry takes the main flow:
\* neither search, crawl nor the main block catches it.
Uncaught == "aborted"

Propagate ==
    /\ rq.st = "raise"
    /\ pc \in {"search_ret", "crawl_ret"}
    /\ pc' = Uncaught
    /\ UNCHANGED <<rq, responses, sent, err, anyFail, pi, ii, entries,
                   categories, authors, ci, dirs, files, touched, catalog>>

----------------------------------------------------------------------------
(* search (update.py 67-82, crawler.py 69-84) *)

Logged(url, payload) == [url |-> url, payload |-> payload]

\* The URL of the request that follows a response with this link header.
FollowUrl(link) == NextMatch(link)

SearchStart ==
    /\ pc = "start"
    /\ pc' = "search_ret"
    /\ rq' = Call(SearchUrl, SearchPayload, TRUE)
    /\ sent' = Append(sent, Logged(SearchUrl, SearchPayload))
    /\ UNCHANGED <<responses, err, anyFail, pi, ii, entries, categories,
                   authors, ci, dirs, files, touched, catalog>>

\* responses.append(response); the loop test succeeds; the next request
SearchFollow ==
    /\ pc = "search_ret"
    /\ rq.st = "ret"
    /\ FollowUrl(rq.resp.link) # <<>>
    /\ responses' = Append(responses, rq.resp)
    /\ rq' = Call(FollowUrl(rq.resp.link), None, TRUE)
    /\ sent' = Append(sent, Logged(FollowUrl(rq.resp.link), None))
    /\ UNCHANGED <<pc, err, anyFail, pi, ii, entries, categories, authors,
                   ci, dirs, files, touched, catalog>>

\* responses.append(response); the loop test fails; search returns and
\* crawl starts with empty lists.
SearchFinish ==
    /\ pc = "search_ret"
    /\ rq.st = "ret"
    /\ FollowUrl(rq.resp.link) = <<>>
    /\ responses' = Append(responses, rq.resp)
    /\ rq' = Idle
    /\ pc' = "crawl"
    /\ pi' = 1
    /\ ii' = 1
    /\ entries' = <<>>
    /\ categories' = <<>>
    /\ authors' = <<>>
    /\ UNCHANGED <<sent, err, anyFail, ci, dirs, files, touched, catalog>>

----------------------------------------------------------------------------
(* crawl (update.py 155-216) *)

ContainsPrefix(t) == \E k \in 1..Len(t) : t[k] = PREFIX

IsNotPrefix(x) == x # PREFIX

\* t.replace('ukagaka-', '')
StripPrefix(t) == SelectSeq(t, IsNotPrefix)

\* [t.replace('ukagaka-', '') for t in item['topics'] if 'ukagaka-' in t]
Types(topics) ==
    LET ts == SelectSeq(topics, ContainsPrefix)
    IN  [k \in 1..Len(ts) |-> StripPrefix(ts[k])]

IsAllowed(t) == t \notin DENIED_CATEGORIES

\* [t for t in types if t not in self.__DENIED_CATEGORIES]
Allowed(types) == SelectSeq(types, IsAllowed)

IsDropped(topics) == Len(Types(topics)) = 0 \/ Len(Allowed(Types(topics))) = 0

\* category = types[0]
Category(topics) == Allowed(Types(topics))[1]

\* item['full_name'].replace('/', '_')
Slug(fn) == [k \in 1..Len(fn) |-> IF fn[k] = "/" THEN "_" ELSE fn[k]]

\* (a variant without the membership test)
AppendAlways(seq, v) == Append(seq, v)

\* if v not in seq: seq.append(v)
AppendIfAbsent(seq, v) ==
    IF \E k \in 1..Len(seq) : seq[k] = v THEN seq ELSE Append(seq, v)

\* The entry of raw item `raw` with the timestamps in force; `raw` itself is
\* history (the item the entry was made from).
MakeEntry(raw, created, pushed) ==
    [id |-> Slug(RawItem[raw].full_name),
     title |-> RawItem[raw].name,
     category |-> Category(RawItem[raw].topics),
     author |-> RawItem[raw].login,
     html_url |-> RawItem[raw].html_url,
     created_at_time |-> created,
     updated_at_time |-> pushed,
     raw |-> raw]

\* (a variant that keeps the item's own timestamps)
CorrectedIgnored(raw, r) ==
    [created_at |-> RawItem[raw].created_at, pushed_at |-> RawItem[raw].pushed_at]

\* The timestamps of a redirected item, given the target's response.
Corrected(raw, r) == [created_at |-> r.created_at, pushed_at |-> r.pushed_at]

AtItem == pc = "crawl" /\ pi <= Len(responses) /\ ii <= Len(responses[pi].items)

Current == responses[pi].items[ii]

\* entries.append(entry) and the two index updates; the inner loop goes on.
Keep(raw, created, pushed) ==
    /\ entries' = Append(entries, MakeEntry(raw, created, pushed))
    /\ categories' = AppendIfAbsent(categories, Category(RawItem[raw].topics))
    /\ authors' = AppendIfAbsent(authors, RawItem[raw].login)
    /\ ii' = ii + 1

\* the two `continue` branches
CrawlDrop ==
    /\ AtItem
    /\ IsDropped(RawItem[Current].topics)
    /\ ii' = ii + 1
    /\ UNCHANGED <<pc, rq, responses, sent, err, anyFail, pi, entries,
                   categories, authors, ci, dirs, files, touched, catalog>>

\* an item that is kept and not redirected
CrawlKeep ==
    /\ AtItem
    /\ ~IsDropped(RawItem[Current].topics)
    /\ RawItem[Current].full_name \notin DOMAIN Redirect
    /\ Keep(Current, RawItem[Current].created_at, RawItem[Current].pushed_at)
    /\ UNCHANGED <<pc, rq, responses, sent, err, anyFail, pi, ci, dirs, files,
                   touched, catalog>>

\* an item that is kept and redirected: the request for the target.  The
\* call passes the logger as third argument, so retry is a truthy object.
CrawlRedirect ==
    /\ AtItem
    /\ ~IsDropped(RawItem[Current].topics)
    /\ RawItem[Current].full_name \in DOMAIN Redirect
    /\ pc' = "crawl_ret"
    /\ rq' = Call(RepoUrl(Redirect[RawItem[Current].full_name]), None, TRUE)
    /\ sent' = Append(sent, Logged(RepoUrl(Redirect[RawItem[Current].full_name]), None))
    /\ UNCHANGED <<responses, err, anyFail, pi, ii, entries, categories,
                   authors, ci, dirs, files, touched, catalog>>

\* r_item = r.json(); the timestamps are overwritten; the entry is made
CrawlRedirected ==
    /\ pc = "crawl_ret"
    /\ rq.st = "ret"
    /\ Keep(Current, Corrected(Current, rq.resp).created_at,
                     Corrected(Current, rq.resp).pushed_at)
    /\ pc' = "crawl"
    /\ rq' = Idle
    /\ UNCHANGED <<responses, sent, err, anyFail, pi, ci, dirs, files, touched,
                   catalog>>

\* the inner loop is exhausted: the next response
CrawlNextPage ==
    /\ pc = "crawl"
    /\ pi <= Len(responses)
    /\ ii > Len(responses[pi].items)
    /\ pi' = pi + 1
    /\ ii' = 1
    /\ UNCHANGED <<pc, rq, responses, sent, err, anyFail, entries, categories,
                   authors, ci, dirs, files, touched, catalog>>

\* the outer loop is exhausted: crawl returns and export starts
CrawlFinish ==
    /\ pc = "crawl"
    /\ pi > Len(responses)
    /\ pc' = "export"
    /\ UNCHANGED <<rq, responses, sent, err, anyFail, pi, ii, entries,
                   categories, authors, ci, dirs, files, touched, catalog>>

----------------------------------------------------------------------------
(* export (update.py 91-146; crawler.py 103-167 adds feed.json beside every *)
(* index.html and handles the directories the same way)                     *)

\* A path below docs/ is a sequence of directory names, a name a sequence of
\* tokens; <<>> is docs/ itself.  f'docs/{category}/' with an empty category
\* is 'docs//', which is docs/.
CategoryPath(category) == IF category = <<>> THEN <<>> ELSE << category >>

AuthorRoot == << <<"author">> >>

AuthorPath(author) == << <<"author">>, << author >> >>

IsUnder(path, d) == Len(path) <= Len(d) /\ SubSeq(d, 1, Len(path)) = path

File(path, name) == [dir |-> path, name |-> name]

\* for filename in ['index.html', 'rss2.xml']: ... open(..., 'w')
PageFiles(path) == { File(path, "index.html"), File(path, "rss2.xml") }

\* shutil.rmtree(path, ignore_errors=True)
RmTreeDirs(path) == { d \in dirs : ~IsUnder(path, d) }
RmTreeFiles(path) == { f \in files : ~IsUnder(path, f.dir) }

\* os.mkdir(path): docs/ itself is not an element of dirs
MkDir(ds, path) == IF path = <<>> THEN ds ELSE ds \cup { path }

\* top page
ExportTop ==
    /\ pc = "export"
    /\ files' = files \cup PageFiles(<<>>)
    /\ touched' = TRUE
    /\ ci' = 1
    /\ pc' = "export_category"
    /\ UNCHANGED <<rq, responses, sent, err, anyFail, pi, ii, entries,
                   categories, authors, dirs, catalog>>

\* one round of `for category in categories`
ExportCategory ==
    /\ pc = "export_category"
    /\ ci <= Len(categories)
    /\ dirs' = MkDir(RmTreeDirs(CategoryPath(categories[ci])),
                     CategoryPath(categories[ci]))
    /\ files' = RmTreeFiles(CategoryPath(categories[ci]))
                    \cup PageFiles(CategoryPath(categories[ci]))
    /\ ci' = ci + 1
    /\ UNCHANGED <<pc, rq, responses, sent, err, anyFail, pi, ii, entries,
                   categories, authors, touched, catalog>>

\* shutil.rmtree('docs/author/'); os.mkdir('docs/author/')
ExportAuthorRoot ==
    /\ pc = "export_category"
    /\ ci > Len(categories)
    /\ dirs' = MkDir(RmTreeDirs(AuthorRoot), AuthorRoot)
    /\ files' = RmTreeFiles(AuthorRoot)
    /\ ci' = 1
    /\ pc' = "export_author"
    /\ UNCHANGED <<rq, responses, sent, err, anyFail, pi, ii, entries,
                   categories, authors, touched, catalog>>

\* one round of `for author in authors`
ExportAuthor ==
    /\ pc = "export_author"
    /\ ci <= Len(authors)
    /\ dirs' = MkDir(dirs, AuthorPath(authors[ci]))
    /\ files' = files \cup PageFiles(AuthorPath(authors[ci]))
    /\ ci' = ci + 1
    /\ UNCHANGED <<pc, rq, responses, sent, err, anyFail, pi, ii, entries,
                   categories, authors, touched, catalog>>

\* sitemap; export returns and the process ends
ExportSitemap ==
    /\ pc = "export_author"
    /\ ci > Len(authors)
    /\ files' = files \cup { File(<<>>, "sitemap.xml") }
    /\ pc' = "done"
    /\ UNCHANGED <<rq, responses, sent, err, anyFail, pi, ii, entries,
                   categories, authors, ci, dirs, touched, catalog>>

----------------------------------------------------------------------------
(* The specifications *)

\* The process as it starts, with the given catalogue on the platform and an
\* empty docs/.
Fresh(at, cat) ==
    /\ pc = at
    /\ rq = Idle
    /\ responses = <<>>
    /\ sent = <<>>
    /\ err = "none"
    /\ anyFail = FALSE
    /\ pi = 1
    /\ ii = 1
    /\ entries = <<>>
    /\ categories = <<>>
    /\ authors = <<>>
    /\ ci = 1
    /\ dirs = {}
    /\ files = {}
    /\ touched = FALSE
    /\ catalog = cat

Request == Get1 \/ Sleep \/ Get2

Run ==
    \/ Request \/ Propagate
    \/ SearchStart \/ SearchFollow \/ SearchFinish
    \/ CrawlDrop \/ CrawlKeep \/ CrawlRedirect \/ CrawlRedirected
    \/ CrawlNextPage \/ CrawlFinish
    \/ ExportTop \/ ExportCategory \/ ExportAuthorRoot \/ ExportAuthor
    \/ ExportSitemap

\* One run of the program.
Init == Fresh("start", Universe)

Next == Run

Spec == Init /\ [][Next]_vars

\* The next run of the program: a new process over the docs/ the earlier
\* runs left.
Restart ==
    /\ pc \in {"done", "aborted"}
    /\ pc' = "start"
    /\ rq' = Idle
    /\ responses' = <<>>
    /\ sent' = <<>>
    /\ err' = "none"
    /\ anyFail' = FALSE
    /\ pi' = 1
    /\ ii' = 1
    /\ entries' = <<>>
    /\ categories' = <<>>
    /\ authors' = <<>>
    /\ ci' = 1
    /\ touched' = FALSE
    /\ UNCHANGED <<dirs, files, catalog>>

InitRuns == Fresh("start", SmallCatalog)

NextRuns == Run \/ Restart

SpecRuns == InitRuns /\ [][NextRuns]_vars

\* _request_with_retry on its own, called with any arguments.
CallUrls == { SearchUrl, PageUrl(2), RepoUrl(<<"n", "/", "x">>) }

CallAny ==
    /\ pc = "caller"
    /\ rq.st = "idle"
    /\ \E url \in CallUrls, retry \in BOOLEAN :
         rq' = Call(url, IF url = SearchUrl THEN SearchPayload ELSE None, retry)
    /\ UNCHANGED <<pc, responses, sent, err, anyFail, pi, ii, entries,
                   categories, authors, ci, dirs, files, touched, catalog>>

\* The call is over (returned or raised); the caller may call again.
CallOver ==
    /\ pc = "caller"
    /\ rq.st \in {"ret", "raise"}
    /\ rq' = Idle
    /\ err' = "none"
    /\ anyFail' = FALSE
    /\ UNCHANGED <<pc, responses, sent, pi, ii, entries, categories, authors,
                   ci, dirs, files, touched, catalog>>

InitReq == Fresh("caller", Universe)

NextReq == Request \/ CallAny \/ CallOver

SpecReq == InitReq /\ [][NextReq]_vars

----------------------------------------------------------------------------
(* Properties *)

IsPrefixOf(s, t) == Len(s) <= Len(t) /\ SubSeq(t, 1, Len(s)) = s

\* The distinct values of a sequence in the order of their first occurrence.
RECURSIVE FirstSeen(_)
FirstSeen(s) ==
    IF s = <<>> THEN <<>>
    ELSE LET init == FirstSeen(SubSeq(s, 1, Len(s) - 1))
             last == s[Len(s)]
         IN  IF \E k \in 1..Len(init) : init[k] = last THEN init
             ELSE Append(init, last)

NoDuplicates(s) == \A i, j \in 1..Len(s) : i # j => s[i] # s[j]

IsRedirected(raw) == RawItem[raw].full_name \in DOMAIN Redirect

\* C1: a call of _request_with_retry made by search or crawl issues one GET;
\* only if that GET failed does it sleep, once, for the failed response's
\* Retry-After seconds (180 without the header), and issue one more GET; it
\* returns the successful response, and after a second failure it raises
\* without a third GET.  (It also raises when the header is not a number.)
C1_RetryPolicy ==
    LET ev == rq.ev
        n  == Len(ev)
    IN  /\ n <= 3
        /\ n >= 1 => ev[1].e = "get"
        /\ n >= 2 => /\ ~ev[1].ok
                     /\ ev[2].e = "sleep"
                     /\ ev[2].w = IF ev[1].ra.kind = "absent" THEN 180
                                  ELSE ev[1].ra.secs
        /\ n = 3 => ev[3].e = "get"
        /\ rq.st = "ret" => n \in {1, 3} /\ ev[n].ok /\ rq.resp.ok
        /\ rq.st = "raise" => \/ n = 3 /\ ~ev[3].ok
                              \/ n = 1 /\ ~ev[1].ok /\ ev[1].ra.kind = "date"
        /\ n = 3 => rq.st = IF ev[3].ok THEN "ret" ELSE "raise"
        /\ n = 1 /\ ev[1].ok => rq.st = "ret"

\* C1 witness: a redirect-target fetch that failed with Retry-After: 60,
\* slept, and succeeded on the retry.
C1_Witness ==
    /\ rq.st = "ret"
    /\ IsRepoUrl(rq.url)
    /\ Len(rq.ev) = 3
    /\ rq.ev[2].w = 60

\* C2: once a request has failed twice (HTTPError), the run is aborted or on
\* its way there: export has not started and never starts, and nothing in
\* docs/ has been written or removed by this run.
C2_FatalFailureNoExport ==
    err = "HTTPError" =>
        /\ pc \in {"search_ret", "crawl_ret", "aborted"}
        /\ ~touched
        /\ dirs = {}
        /\ files = {}

\* C2 witness: the run aborted on a redirect-target fetch, after crawl had
\* already made an entry.
C2_Witness ==
    /\ pc = "aborted"
    /\ err = "HTTPError"
    /\ IsRepoUrl(rq.url)
    /\ Len(entries) = 1

RECURSIVE Flatten(_)
Flatten(rs) == IF rs = <<>> THEN <<>> ELSE Head(rs).items \o Flatten(Tail(rs))

IsKept(raw) == ~IsDropped(RawItem[raw].topics)

\* C3: when no GET failed, search has issued one request per response: the
\* first to the search endpoint with q and sort, each later one to the URL
\* the previous response advertised as rel="next", verbatim and without
\* parameters; the responses are pages 1..N in order and only the last has
\* no next; and the entries follow the items in page order.
C3_PaginationVerbatim ==
    ~anyFail =>
        /\ pc \in {"crawl", "export", "done"} /\ ~(\E k \in 1..Len(sent) : IsRepoUrl(sent[k].url)) =>
             /\ Len(sent) = Len(responses)
             /\ sent[1] = Logged(SearchUrl, SearchPayload)
             /\ \A k \in 2..Len(sent) :
                    sent[k] = Logged(AdvertisedNext(responses[k - 1].link), None)
             /\ \A k \in 1..Len(responses) :
                    /\ responses[k].page = k
                    /\ (AdvertisedNext(responses[k].link) = <<>>) = (k = Len(responses))
        /\ pc \in {"export", "done"} =>
             [k \in 1..Len(entries) |-> entries[k].raw]
                 = SelectSeq(Flatten(responses), IsKept)

\* C4: when export has completed, the category directories in docs/ are
\* exactly those of this run's categories and the author directories exactly
\* those of this run's authors.
C4_NoStaleScopedOutput ==
    pc = "done" =>
        /\ { d \in dirs : Len(d) = 1 /\ d # AuthorRoot }
               = { CategoryPath(categories[k]) : k \in 1..Len(categories) }
        /\ { d \in dirs : Len(d) = 2 }
               = { AuthorPath(authors[k]) : k \in 1..Len(authors) }

\* C5: no entry and no element of the category index has an empty or a
\* denylisted category.
C5_CategoryNeverEmptyOrDenied ==
    /\ \A k \in 1..Len(entries) :
           entries[k].category # <<>> /\ entries[k].category \notin DENIED_CATEGORIES
    /\ \A k \in 1..Len(categories) :
           categories[k] # <<>> /\ categories[k] \notin DENIED_CATEGORIES

StartsWithPrefix(t) == Len(t) > 0 /\ t[1] = PREFIX

\* C6: every entry was made from an item with a topic that starts with
\* 'ukagaka-' (an item without one is dropped).
C6_NoPrefixTagDropped ==
    \A k \in 1..Len(entries) :
        \E n \in 1..Len(RawItem[entries[k].raw].topics) :
            StartsWithPrefix(RawItem[entries[k].raw].topics[n])

\* C7: no two entries of a run have the same id.
C7_UniqueIds ==
    \A i, j \in 1..Len(entries) : i # j => entries[i].id # entries[j].id

IndexInv ==
    /\ NoDuplicates(categories)
    /\ NoDuplicates(authors)
    /\ categories = FirstSeen([k \in 1..Len(entries) |-> entries[k].category])
    /\ authors = FirstSeen([k \in 1..Len(entries) |-> entries[k].author])

IndexStable ==
    /\ IsPrefixOf(categories, categories')
    /\ IsPrefixOf(authors, authors')

\* C8: at every step the category index and the author index hold, without
\* duplicates, exactly the categories and the owners of the entries made so
\* far, in the order of their first occurrence; and a step never removes or
\* moves a value that is in an index: it only appends.
C8_IndicesFirstSeen == []IndexInv /\ [][IndexStable]_vars

\* C8 witness: two entries of different repositories with the same category
\* and different owners.
C8_Witness ==
    /\ Len(entries) = 2
    /\ entries[1].raw # entries[2].raw
    /\ Len(categories) = 1
    /\ Len(authors) = 2

IsRepoCall(c) == IsRepoUrl(c.url)

\* The redirect-target URLs crawl must have asked for: one per entry made
\* from a redirected item, and the one of the item whose fetch is under way
\* (or has aborted the run).
ExpectedFetches ==
    LET made == SelectSeq([k \in 1..Len(entries) |-> entries[k].raw], IsRedirected)
        done == [k \in 1..Len(made) |-> RepoUrl(Redirect[RawItem[made[k]].full_name])]
    IN  IF pc = "crawl_ret" \/ (pc = "aborted" /\ IsRepoUrl(rq.url))
        THEN Append(done, RepoUrl(Redirect[RawItem[Current].full_name]))
        ELSE done

\* C9: the requests crawl has made are, in order, one fetch of the redirect
\* target per kept redirected item and nothing else; the entry of a
\* redirected item has the target's created_at and pushed_at, the entry of
\* any other item its own; id, title, category, author and url are always
\* those of the item.
C9_RedirectTimestamps ==
    /\ LET calls == SelectSeq(sent, IsRepoCall)
       IN  [k \in 1..Len(calls) |-> calls[k].url] = ExpectedFetches
    /\ \A k \in 1..Len(entries) :
         LET e    == entries[k]
             item == RawItem[e.raw]
         IN  /\ e.id = Slug(item.full_name)
             /\ e.title = item.name
             /\ e.category = Allowed(Types(item.topics))[1]
             /\ e.author = item.login
             /\ e.html_url = item.html_url
             /\ IF item.full_name \in DOMAIN Redirect
                THEN /\ e.created_at_time = RepoData[Redirect[item.full_name]].created_at
                     /\ e.updated_at_time = RepoData[Redirect[item.full_name]].pushed_at
                ELSE /\ e.created_at_time = item.created_at
                     /\ e.updated_at_time = item.pushed_at

\* C9 witness: a run that exported an entry of a redirected repository and
\* one of a repository that is not redirected.
C9_Witness ==
    /\ pc = "done"
    /\ Len(entries) = 2
    /\ IsRedirected(entries[1].raw)
    /\ ~IsRedirected(entries[2].raw)

\* C10: a response that _request_with_retry returns has a success status,
\* whatever the retry argument.
C10_ReturnedResponseOk ==
    rq.st = "ret" => rq.resp.ok

====
